---- MODULE Spec2Model ----
(***************************************************************************)
(* A model of the embedding-propagation engine of cloverleaf:              *)
(*   src/src/vocab.rs               Vocab                                  *)
(*   src/src/algos/ep.rs            FeatureStore, EmbeddingPropagation     *)
(*   src/src/algos/ep/optimizer.rs  MomentumOptimizer, AdamOptimizer       *)
(* Ids are 0-based as in the source; TLA+ sequences are 1-based, so the    *)
(* element with id i of a Vec is element i+1 of the sequence modelling it. *)
(***************************************************************************)
EXTENDS Integers, Sequences, FiniteSets, TLC

VARIABLES
    vocab,          \* a stand-alone Vocab (vocab.rs:11-17)
    ins_log,        \* history: the (type, name, returned id) of every get_or_insert
    feat_issued,    \* history: the (name, returned id) of every get_or_insert of set_features
    features,       \* FeatureStore.features (ep.rs:14)
    feature_vocab,  \* FeatureStore.feature_vocab (ep.rs:15)
    empty_nodes,    \* FeatureStore.empty_nodes (ep.rs:16)
    synth_holder,   \* history: the nodes whose current list was written by fill_missing_nodes
    synth_count,    \* history: how many ids fill_missing_nodes has synthesized
    fills,          \* history: how many times fill_missing_nodes has been called
    last_op,        \* history: the operation that returned last
    client,         \* which of the two independent objects this client drives
    \* EmbeddingPropagation::learn_feature_embeddings (ep.rs:85-134)
    cfg,            \* the call: graph size n, batch_size, passes, seed
    pc,             \* "Idle", "Pass", "Compute", "Aggregate", "Sgd", "Done" or "Panicked"
    feature_embeddings, \* the feature table (ep.rs:92)
    rng,            \* the loop's generator (ep.rs:93)
    node_idxs,      \* ep.rs:96
    pass,           \* the pass being run (ep.rs:104)
    batch,          \* i of ep.rs:109, the index of the chunk being processed
    tasks,          \* the closures of par_iter().map (ep.rs:112-116), one per node of the chunk
    grads,          \* ep.rs:102, the slots collect_into_vec has written
    all_grads,      \* ep.rs:103
    error,          \* ep.rs:107
    cnt,            \* ep.rs:108
    collected,      \* history: the results of the chunk as they were collected
    passes_run,     \* history: the passes completed, in order
    evals,          \* history: how many run_pass calls have returned
    processed,      \* history: the nodes whose run_pass has returned in the current pass, in order
    pass_out,       \* history: the table as the last completed pass left it
    \* Optimizers (optimizer.rs) and sgd (ep.rs:200-219) called on their own
    optimizer,      \* which update a client calls: "sgd", "Momentum" or "Adam"
    mom,            \* MomentumOptimizer.mom (optimizer.rs:18), AdamOptimizer.mom (optimizer.rs:61)
    var,            \* AdamOptimizer.var (optimizer.rs:62)
    steps,          \* the step count t the caller passes to update
    applied,        \* history: the gradient map of the last update and the tables before it
    \* Functions called on their own
    args,           \* the function called last and its arguments
    result          \* what it returned

storeVars == <<vocab, ins_log, feat_issued, synth_holder, synth_count, fills, last_op, client>>
fsVars == <<features, feature_vocab, empty_nodes>>
trainVars == <<cfg, pc, feature_embeddings, rng, node_idxs, pass, batch, tasks, grads,
               all_grads, error, cnt, collected, passes_run, evals, processed, pass_out>>

optVars == <<optimizer, mom, var, steps, applied>>
callVars == <<args, result>>

vars == <<storeVars, fsVars, trainVars, optVars, callVars>>

----------------------------------------------------------------------------
(* Bounds of the model. *)

\* Number of nodes handed to FeatureStore::new.
NumNodes == 2
\* Longest name list handed to set_features.
MaxFeats == 1
\* How many times fill_missing_nodes may be called in one behaviour.
MaxFills == 2
\* How many get_or_insert calls are made on the stand-alone Vocab.
MaxInserts == 3

NodeIds == 0 .. (NumNodes - 1)
FeatNames == {"a", "b"}
NodeTypes == {"feat", "title"}

RECURSIVE SeqsUpTo(_, _)
SeqsUpTo(S, n) ==
    IF n = 0 THEN {<<>>}
    ELSE LET shorter == SeqsUpTo(S, n - 1)
         IN  shorter \cup {Append(s, x) : s \in {t \in shorter : Len(t) = n - 1}, x \in S}

NameLists == SeqsUpTo(FeatNames, MaxFeats)

----------------------------------------------------------------------------
(* Vocab, vocab.rs *)

\* Vocab::new, without the process-wide vocab_id.
VocabNew ==
    [ node_type_to_id |-> <<>>,    \* HashMap<type, usize>, a function on the types seen
      id_to_node_type |-> <<>>,    \* Vec<type>
      vocab_to_idx    |-> <<>>,    \* HashMap<(usize, name), NodeID>
      node_id_to_node |-> <<>> ]   \* Vec<(usize, name)>

\* Vocab::len
VocabLen(v) == Len(v.node_id_to_node)

\* Vocab::get_or_insert_node_type: the vocabulary after the call and the type id.
GetOrInsertNodeType(v, node_type) ==
    IF node_type \in DOMAIN v.node_type_to_id
    THEN [ v |-> v, nt_id |-> v.node_type_to_id[node_type] ]
    ELSE LET new_idx == Len(v.id_to_node_type)
         IN  [ v |-> [ v EXCEPT !.node_type_to_id = @ @@ (node_type :> new_idx),
                                !.id_to_node_type = Append(@, node_type) ],
               nt_id |-> new_idx ]

\* Mutant: a get_or_insert that issues a new id on every call, even for a known pair.
GetOrInsertAlwaysNew(v, node_type, name) ==
    LET r  == GetOrInsertNodeType(v, node_type)
        t  == <<r.nt_id, name>>
        new_idx == Len(r.v.node_id_to_node)
    IN  [ v |-> [ r.v EXCEPT !.vocab_to_idx = (t :> new_idx) @@ @,
                             !.node_id_to_node = Append(@, t) ],
          id |-> new_idx ]

\* Vocab::get_or_insert / get_or_insert_shared: the vocabulary after the call
\* and the id returned.
GetOrInsert(v, node_type, name) ==
    LET r  == GetOrInsertNodeType(v, node_type)
        t  == <<r.nt_id, name>>
    IN  IF t \in DOMAIN r.v.vocab_to_idx
        THEN [ v |-> r.v, id |-> r.v.vocab_to_idx[t] ]
        ELSE LET new_idx == Len(r.v.node_id_to_node)
             IN  [ v |-> [ r.v EXCEPT !.vocab_to_idx = @ @@ (t :> new_idx),
                                      !.node_id_to_node = Append(@, t) ],
                   id |-> new_idx ]

None == [ some |-> FALSE ]
Some(x) == [ some |-> TRUE, val |-> x ]

\* Vocab::get_node_id / get_node_id_int
GetNodeId(v, node_type, name) ==
    IF node_type \in DOMAIN v.node_type_to_id
    THEN LET t == <<v.node_type_to_id[node_type], name>>
         IN  IF t \in DOMAIN v.vocab_to_idx THEN Some(v.vocab_to_idx[t]) ELSE None
    ELSE None

\* Mutant: a get_name that reads the first type for every id.
GetNameFirstType(v, node) ==
    IF node + 1 \in DOMAIN v.node_id_to_node
    THEN LET e == v.node_id_to_node[node + 1]
         IN  Some(<<v.id_to_node_type[1], e[2]>>)
    ELSE None

\* Vocab::get_name
GetName(v, node) ==
    IF node + 1 \in DOMAIN v.node_id_to_node
    THEN LET e == v.node_id_to_node[node + 1]
         IN  Some(<<v.id_to_node_type[e[1] + 1], e[2]>>)
    ELSE None

----------------------------------------------------------------------------
(* f32 values.  A value is a fixed-point number, an integer count of ticks  *)
(* of 1/Scale, or one of the three special values of IEEE arithmetic.       *)
(* A result beyond MaxFinite overflows to an infinity, as f32 does.         *)

\* Ticks per unit: the value 1.0 is Scale ticks.
Scale == 4
\* The largest finite value, in ticks.
MaxFinite == 64

PInf == MaxFinite + 1
NInf == -(MaxFinite + 1)
NaN  == MaxFinite + 2

is_nan(x) == x = NaN
IsInf(x) == x = PInf \/ x = NInf
is_finite(x) == ~is_nan(x) /\ ~IsInf(x)

\* An exact result, overflowing to an infinity.
Overflow(x) == IF x > MaxFinite THEN PInf ELSE IF x < -MaxFinite THEN NInf ELSE x

Abs(x) == IF x < 0 THEN -x ELSE x
Sign(x) == IF x < 0 THEN -1 ELSE IF x > 0 THEN 1 ELSE 0
\* Integer division rounding toward zero.
TDiv(x, y) == Sign(x) * Sign(y) * (Abs(x) \div Abs(y))
\* The sign of a value that is not NaN.
FSign(x) == IF x = PInf THEN 1 ELSE IF x = NInf THEN -1 ELSE Sign(x)
SignedInf(sg) == IF sg < 0 THEN NInf ELSE PInf

\* The f32 value of an integer.
F(n) == Overflow(n * Scale)

FNeg(a) == IF is_nan(a) THEN NaN ELSE IF a = PInf THEN NInf ELSE IF a = NInf THEN PInf ELSE -a

FAdd(a, b) ==
    IF is_nan(a) \/ is_nan(b) THEN NaN
    ELSE IF IsInf(a) THEN (IF IsInf(b) /\ a # b THEN NaN ELSE a)
    ELSE IF IsInf(b) THEN b
    ELSE Overflow(a + b)

FSub(a, b) == FAdd(a, FNeg(b))

FMul(a, b) ==
    IF is_nan(a) \/ is_nan(b) THEN NaN
    ELSE IF IsInf(a) \/ IsInf(b)
         THEN (IF a = 0 \/ b = 0 THEN NaN ELSE SignedInf(FSign(a) * FSign(b)))
    ELSE Overflow(TDiv(a * b, Scale))

FDiv(a, b) ==
    IF is_nan(a) \/ is_nan(b) THEN NaN
    ELSE IF IsInf(a) THEN (IF IsInf(b) THEN NaN
                           ELSE SignedInf(FSign(a) * (IF b < 0 THEN -1 ELSE 1)))
    ELSE IF IsInf(b) THEN 0
    ELSE IF b = 0 THEN (IF a = 0 THEN NaN ELSE SignedInf(Sign(a)))
    ELSE Overflow(TDiv(a * Scale, b))

\* The integer square root.
Isqrt(n) == CHOOSE r \in 0 .. n : r * r <= n /\ (r + 1) * (r + 1) > n

FSqrt(a) ==
    IF is_nan(a) \/ a = NInf THEN NaN
    ELSE IF a = PInf THEN PInf
    ELSE IF a < 0 THEN NaN
    ELSE Isqrt(a * Scale)

\* f32::max(0): maximum with zero; a NaN is not greater than zero.
FMax0(a) == IF is_nan(a) THEN 0 ELSE IF FSign(a) > 0 THEN a ELSE 0

\* Vectors are sequences of values.
VAdd(u, v) == [i \in DOMAIN u |-> FAdd(u[i], v[i])]
VSub(u, v) == [i \in DOMAIN u |-> FSub(u[i], v[i])]
VScale(u, c) == [i \in DOMAIN u |-> FMul(u[i], c)]
VDivS(u, c) == [i \in DOMAIN u |-> FDiv(u[i], c)]

----------------------------------------------------------------------------
(* FeatureStore, ep.rs:12-56 *)

\* The map/collect of set_features: get_or_insert("feat", f) for each name in
\* order; the vocabulary after the calls and the ids collected.
RECURSIVE CollectFeatureIds(_, _)
CollectFeatureIds(v, names) ==
    IF names = <<>> THEN [ v |-> v, ids |-> <<>> ]
    ELSE LET r    == GetOrInsert(v, "feat", Head(names))
             rest == CollectFeatureIds(r.v, Tail(names))
         IN  [ v |-> rest.v, ids |-> <<r.id>> \o rest.ids ]

\* Mutant: a length that counts the vocabulary only.
FeatureStoreLenVocabOnly == VocabLen(feature_vocab)

\* FeatureStore::len
FeatureStoreLen == VocabLen(feature_vocab) + empty_nodes

\* Mutant: a fill that stops after the first feature-less node.
RECURSIVE FillFirstOnly(_, _, _)
FillFirstOnly(f, n, idxs) ==
    IF n \notin DOMAIN f THEN [ features |-> f, given |-> <<>>, nodes |-> {} ]
    ELSE IF Len(f[n]) = 0
         THEN [ features |-> [f EXCEPT ![n] = <<idxs>>], given |-> <<idxs>>, nodes |-> {n} ]
         ELSE FillFirstOnly(f, n + 1, idxs)

\* The for_each of fill_missing_nodes from node n on, with the running idxs:
\* the feature lists, the ids given out and the nodes that received one.
RECURSIVE FillFrom(_, _, _)
FillFrom(f, n, idxs) ==
    IF n \notin DOMAIN f THEN [ features |-> f, given |-> <<>>, nodes |-> {} ]
    ELSE IF Len(f[n]) = 0
         THEN LET rest == FillFrom([f EXCEPT ![n] = <<idxs>>], n + 1, idxs + 1)
              IN  [ features |-> rest.features,
                    given    |-> <<idxs>> \o rest.given,
                    nodes    |-> {n} \cup rest.nodes ]
         ELSE FillFrom(f, n + 1, idxs)

\* FeatureStore::set_features
set_features(node, node_features) ==
    /\ client = "FeatureStore"
    /\ LET r == CollectFeatureIds(feature_vocab, node_features)
       IN  /\ features' = [features EXCEPT ![node] = r.ids]
           /\ feature_vocab' = r.v
           /\ feat_issued' = feat_issued \cup
                  {<<node_features[i], r.ids[i]>> : i \in DOMAIN node_features}
    /\ synth_holder' = synth_holder \ {node}
    /\ last_op' = "set_features"
    /\ UNCHANGED <<vocab, ins_log, empty_nodes, synth_count, fills, client, trainVars, optVars, callVars>>

\* FeatureStore::fill_missing_nodes
fill_missing_nodes ==
    /\ client = "FeatureStore"
    /\ fills < MaxFills
    /\ LET r == FillFrom(features, 0, VocabLen(feature_vocab))
       IN  /\ features' = r.features
           /\ empty_nodes' = empty_nodes + Len(r.given)
           /\ synth_holder' = synth_holder \cup r.nodes
           /\ synth_count' = synth_count + Len(r.given)
    /\ fills' = fills + 1
    /\ last_op' = "fill_missing_nodes"
    /\ UNCHANGED <<vocab, ins_log, feat_issued, feature_vocab, client, trainVars, optVars, callVars>>

\* A call of Vocab::get_or_insert on the stand-alone vocabulary.
get_or_insert(node_type, name) ==
    /\ client = "Vocab"
    /\ Len(ins_log) < MaxInserts
    /\ LET r == GetOrInsert(vocab, node_type, name)
       IN  /\ vocab' = r.v
           /\ ins_log' = Append(ins_log, <<node_type, name, r.id>>)
    /\ last_op' = "get_or_insert"
    /\ UNCHANGED <<feat_issued, features, feature_vocab, empty_nodes, synth_holder,
                   synth_count, fills, client, trainVars, optVars, callVars>>

----------------------------------------------------------------------------
(* Random numbers.  XorShiftRng is modelled as a full-period generator on  *)
(* RngBits bits: a state, a step, and the draws the code makes from it.    *)

\* Bits of generator state.
RngBits == 4
RngMod == 2 ^ RngBits

\* XorShiftRng::seed_from_u64
SeedFromU64(x) == x % RngMod
\* One step of the generator; the new state is also its output.
RngStep(s) == (5 * s + 3) % RngMod
\* Uniform::new(0, n).sample(rng): the value drawn, from the stepped state.
UniformOf(s, n) == (RngStep(s) * n) \div RngMod
\* rng.gen::<f32>(): a value in [0, 1), from the stepped state.
GenF32(s) == (RngStep(s) * Scale) \div RngMod

----------------------------------------------------------------------------
(* Embedding tables and the graph. *)

\* Embedding dimension (EmbeddingPropagation.dims).
Dims == 1

ZeroVec == [i \in 1 .. Dims |-> 0]

\* EmbeddingStore::new(len, dims, _): len rows of zeros.
EmbeddingStoreNew(len) == [r \in 1 .. len |-> ZeroVec]

\* EmbeddingStore::get_embedding(idx)
GetEmbedding(es, idx) == es[idx + 1]

\* randomize_embedding_store from coordinate c of row idx on: the table and
\* the generator state after it.
RECURSIVE RandomizeFrom(_, _, _, _)
RandomizeFrom(es, idx, c, s) ==
    IF idx >= Len(es) THEN [ es |-> es, rng |-> s ]
    ELSE IF c > Dims THEN RandomizeFrom(es, idx + 1, 1, s)
    ELSE RandomizeFrom([es EXCEPT ![idx + 1][c] = FSub(FMul(F(2), GenF32(s)), F(1))],
                       idx, c + 1, RngStep(s))

randomize_embedding_store(es, s) == RandomizeFrom(es, 0, 1, s)

\* Mutant: a swap that loses one of the two elements.
SwapOverwrite(q, i, j) == [q EXCEPT ![i] = q[j]]

\* Swap of two positions (1-based) of a sequence.
Swap(q, i, j) == [q EXCEPT ![i] = q[j], ![j] = q[i]]

\* SliceRandom::shuffle: for i in (1..len).rev() swap(i, gen_range(0, i + 1));
\* the sequence and the generator state after it.
RECURSIVE ShuffleFrom(_, _, _)
ShuffleFrom(q, i, s) ==
    IF i < 1 THEN [ seq |-> q, rng |-> s ]
    ELSE ShuffleFrom(Swap(q, i + 1, UniformOf(s, i + 1) + 1), i - 1, RngStep(s))

Shuffle(q, s) == ShuffleFrom(q, Len(q) - 1, s)

\* graph.get_edges(node).0 for the complete graph on n nodes that the test
\* builds: every other node, in ascending order.
RECURSIVE EdgesFrom(_, _, _)
EdgesFrom(n, node, k) ==
    IF k >= n THEN <<>>
    ELSE (IF k = node THEN <<>> ELSE <<k>>) \o EdgesFrom(n, node, k + 1)

GetEdges(n, node) == EdgesFrom(n, node, 0)

\* The neighbour cap run_pass hands to reconstruct_node_embedding: Some(10).
MaxNeighbors == 10

\* iter().take(k)
Take(q, k) == SubSeq(q, 1, IF k < Len(q) THEN k ELSE Len(q))

----------------------------------------------------------------------------
(* Node embeddings, loss and gradients, ep.rs:179-287 *)

\* collect_embeddings_from_node: the NodeCounts map (feature id -> count)
\* after visiting the features feats of one node.
RECURSIVE CollectCounts(_, _)
CollectCounts(feat_map, feats) ==
    IF feats = <<>> THEN feat_map
    ELSE LET feat == Head(feats)
         IN  CollectCounts(
                 IF feat \in DOMAIN feat_map
                 THEN [feat_map EXCEPT ![feat] = @ + 1]
                 ELSE feat_map @@ (feat :> 1),
                 Tail(feats))

\* The loop of reconstruct_node_embedding over the neighbours taken.
RECURSIVE CollectCountsOfNodes(_, _, _)
CollectCountsOfNodes(feat_map, nodes, store) ==
    IF nodes = <<>> THEN feat_map
    ELSE CollectCountsOfNodes(CollectCounts(feat_map, store[Head(nodes)]),
                              Tail(nodes), store)

Min(S) == CHOOSE x \in S : \A y \in S : x <= y

\* The one element of a singleton set: The({e : x \in {d}}) is e with x
\* bound to the value of d, computed once.
The(S) == CHOOSE x \in S : TRUE

\* Sum of the counts of a NodeCounts map.
RECURSIVE CountSum(_, _)
CountSum(feat_map, keys) ==
    IF keys = {} THEN 0
    ELSE LET f == Min(keys) IN feat_map[f] + CountSum(feat_map, keys \ {f})

\* The keys of a map in ascending order, the order in which the model
\* iterates a HashMap.
RECURSIVE KeyOrder(_)
KeyOrder(keys) ==
    IF keys = {} THEN <<>> ELSE <<Min(keys)>> \o KeyOrder(keys \ {Min(keys)})

\* Mutant: a sum that leaves out the multiplicities.
RECURSIVE UnweightedSum(_, _, _, _)
UnweightedSum(feat_map, order, es, acc) ==
    IF order = <<>> THEN acc
    ELSE UnweightedSum(feat_map, Tail(order), es, VAdd(acc, GetEmbedding(es, Head(order))))

\* vs.sum_all() of mean_embeddings (ep.rs:270-276): the sum of emb * count
\* over the entries of the map, visited in the given order of the keys.
RECURSIVE WeightedSum(_, _, _, _)
WeightedSum(feat_map, order, es, acc) ==
    IF order = <<>> THEN acc
    ELSE LET f == Head(order)
         IN  WeightedSum(feat_map, Tail(order), es,
                         VAdd(acc, VScale(GetEmbedding(es, f), F(feat_map[f]))))

\* mean_embeddings (ep.rs:269-277) on an iterator that yields the entries of
\* the map in the given order.
MeanVisited(feat_map, order, es) ==
    VDivS(WeightedSum(feat_map, order, es, ZeroVec),
          F(CountSum(feat_map, DOMAIN feat_map)))

\* mean_embeddings(feature_map.values())
mean_embeddings(feat_map, es) == MeanVisited(feat_map, KeyOrder(DOMAIN feat_map), es)

\* The same sum in ep/model.rs (model.rs:335-344), which multiplies by the
\* count only when it is above one.
RECURSIVE PooledSum(_, _, _, _)
PooledSum(feat_map, order, es, acc) ==
    IF order = <<>> THEN acc
    ELSE LET f == Head(order)
             emb == GetEmbedding(es, f)
         IN  PooledSum(feat_map, Tail(order), es,
                       VAdd(acc, IF feat_map[f] > 1 THEN VScale(emb, F(feat_map[f])) ELSE emb))

\* mean_embeddings of ep/model.rs (model.rs:334-346)
MeanPooled(feat_map, order, es) ==
    VDivS(PooledSum(feat_map, order, es, ZeroVec),
          F(CountSum(feat_map, DOMAIN feat_map)))

\* One in the finer unit in which the exponential series is summed.
ExpUnit == Scale * Scale * Scale

\* The terms of the series of e^(a/Scale) from the k-th on, in the finer
\* unit, for a >= 0; the terms end where they round to zero.
RECURSIVE ExpTerms(_, _, _)
ExpTerms(a, k, term) ==
    IF term = 0 THEN 0
    ELSE term + ExpTerms(a, k + 1, (term * a) \div (Scale * (k + 1)))

\* Whether e^(a/Scale) is above the largest finite value for certain: its
\* first three terms already are.
ExpOverflows(a) == 2 * Scale * Scale + 2 * Scale * a + a * a > 2 * Scale * MaxFinite

\* f32::exp
FExp(a) ==
    IF is_nan(a) THEN NaN
    ELSE IF a = PInf THEN PInf
    ELSE IF a = NInf THEN 0
    ELSE IF a >= 0
         THEN (IF ExpOverflows(a) THEN PInf
               ELSE Overflow(ExpTerms(a, 0, ExpUnit) \div (Scale * Scale)))
    ELSE IF ExpOverflows(-a) THEN 0
    ELSE ((ExpUnit * ExpUnit) \div ExpTerms(-a, 0, ExpUnit)) \div (Scale * Scale)

\* ANode::dot from coordinate i on.
RECURSIVE DotFrom(_, _, _)
DotFrom(u, v, i) ==
    IF i > Len(u) THEN 0 ELSE FAdd(FMul(u[i], v[i]), DotFrom(u, v, i + 1))

\* sum_all of a list of scalars.
RECURSIVE SumAll(_)
SumAll(q) == IF q = <<>> THEN 0 ELSE FAdd(Head(q), SumAll(Tail(q)))

\* model.rs:259-269: scaled[i], the dot products of item i with every other
\* item, each times the product of the two counts.
Scaled(feat_map, order, es, i) ==
    LET sdot(j) == FMul(DotFrom(GetEmbedding(es, order[i]), GetEmbedding(es, order[j]), 1),
                        F(feat_map[order[i]] * feat_map[order[j]]))
        others == SelectSeq([j \in 1 .. Len(order) |-> j], LAMBDA j : j # i)
    IN  [n \in 1 .. Len(others) |-> sdot(others[n])]

\* The sum of feat * attention over the items from the i-th on.
RECURSIVE AttentionSum(_, _, _, _)
AttentionSum(order, es, softmax, i) ==
    IF i > Len(order) THEN ZeroVec
    ELSE VAdd(VScale(GetEmbedding(es, order[i]), softmax[i]),
              AttentionSum(order, es, softmax, i + 1))

\* attention_mean (model.rs:250-282) on an iterator that yields the entries
\* of the map in the given order.
attention_mean(feat_map, order, es) ==
    IF Len(order) = 1 THEN GetEmbedding(es, order[1])
    ELSE LET d_k     == FSqrt(F(1))
             exps    == [i \in 1 .. Len(order) |->
                            FExp(FDiv(SumAll(Scaled(feat_map, order, es, i)), d_k))]
             denom   == SumAll(exps)
             softmax == [i \in 1 .. Len(order) |-> FDiv(exps[i], denom)]
         IN  AttentionSum(order, es, softmax, 1)

\* construct_node_embedding of ep/model.rs (model.rs:211-227) with
\* max_features = None: every feature of the node is collected.
construct_node_embedding(node, store, es) ==
    LET feature_map == CollectCounts(<<>>, store[node])
    IN  [ vars |-> feature_map,
          emb  |-> MeanPooled(feature_map, KeyOrder(DOMAIN feature_map), es) ]

\* attention_construct_node_embedding (model.rs:232-248)
attention_construct_node_embedding(node, store, es) ==
    LET feature_map == CollectCounts(<<>>, store[node])
    IN  [ vars |-> feature_map,
          emb  |-> attention_mean(feature_map, KeyOrder(DOMAIN feature_map), es) ]

\* construct_from_multiple_nodes (model.rs:315-332)
construct_from_multiple_nodes(nodes, store, es) ==
    LET feature_map == CollectCountsOfNodes(<<>>, nodes, store)
    IN  [ vars |-> feature_map,
          emb  |-> MeanPooled(feature_map, KeyOrder(DOMAIN feature_map), es) ]

\* reconstruct_node_embedding (model.rs:288-313) with max_nodes = None, on
\* the complete graph on n nodes.
reconstruct_node_embedding(n, node, store, es) ==
    construct_from_multiple_nodes(GetEdges(n, node), store, es)

\* The two implementations of the Model trait, built with (None, None).
Strategies == {"Averaged", "Attention"}

\* Model::construct_node_embedding (model.rs:54-67, 127-140)
Model_construct_node_embedding(strategy, node, store, es) ==
    IF strategy = "Attention" THEN attention_construct_node_embedding(node, store, es)
    ELSE construct_node_embedding(node, store, es)

\* Model::reconstruct_node_embedding (model.rs:69-85, 142-158)
Model_reconstruct_node_embedding(strategy, n, node, store, es) ==
    reconstruct_node_embedding(n, node, store, es)

\* Model::construct_from_multiple_nodes (model.rs:87-104, 160-177)
Model_construct_from_multiple_nodes(strategy, nodes, store, es) ==
    LET feature_map == CollectCountsOfNodes(<<>>, nodes, store)
    IN  [ vars |-> feature_map,
          emb  |-> MeanPooled(feature_map, KeyOrder(DOMAIN feature_map), es) ]

\* Sum of the squares of the coordinates of a finite vector, in ticks squared.
RECURSIVE SumSquares(_, _)
SumSquares(x, i) == IF i > Len(x) THEN 0 ELSE x[i] * x[i] + SumSquares(x, i + 1)

\* The norm of a vector: (x.pow(2).sum()).pow(0.5)
Norm2(x) ==
    IF \E i \in DOMAIN x : is_nan(x[i]) THEN NaN
    ELSE IF \E i \in DOMAIN x : IsInf(x[i]) THEN PInf
    ELSE Overflow(Isqrt(SumSquares(x, 1)))

\* euclidean_distance
euclidean_distance(e1, e2) == Norm2(VSub(e1, e2))

\* Mutant: the loss with the two distances exchanged.
margin_loss_swapped(thv, hv, hu, gamma) ==
    FMax0(FSub(FAdd(gamma, euclidean_distance(thv, hu)), euclidean_distance(thv, hv)))

\* margin_loss (ep.rs:283-287)
margin_loss(thv, hv, hu, gamma) ==
    LET d1 == euclidean_distance(thv, hv)
        d2 == euclidean_distance(thv, hu)
    IN  FMax0(FSub(FAdd(gamma, d1), d2))

\* The three constructions of run_pass, in the order their variables are
\* handed to extract_grads.
Constructions == <<"hv", "thv", "hu">>

\* Forward pass of run_pass for anchor node and negative neg_node over a
\* complete graph on n nodes: the NodeCounts map and pooled vector of each
\* construction, and the loss.
Forward(n, node, neg_node, store, es, gamma) ==
    LET hv_vars  == CollectCounts(<<>>, store[node])
        thv_vars == CollectCountsOfNodes(<<>>, Take(GetEdges(n, node), MaxNeighbors), store)
        hu_vars  == CollectCounts(<<>>, store[neg_node])
        hv  == mean_embeddings(hv_vars, es)
        thv == mean_embeddings(thv_vars, es)
        hu  == mean_embeddings(hu_vars, es)
    IN  [ vars |-> [hv |-> hv_vars, thv |-> thv_vars, hu |-> hu_vars],
          hv |-> hv, thv |-> thv, hu |-> hu,
          loss |-> margin_loss(thv, hv, hu, gamma) ]

\* Graph::backward followed by Graph::get_grad: the gradient of the loss with
\* respect to the pooled vector of construction c.  The derivative of the
\* norm at x is x / |x|, which is 0/0 = NaN where the two vectors coincide;
\* the hinge passes the gradient on where the loss is positive.
PooledGrad(fw, c, gamma) ==
    The({ LET u1 == VDivS(x[1], x[3])
              u2 == VDivS(x[2], x[4])
              v  == FSub(FAdd(gamma, x[3]), x[4])
              up == IF ~is_nan(v) /\ FSign(v) > 0 THEN F(1) ELSE 0
              g  == IF c = "hv" THEN [i \in DOMAIN u1 |-> FNeg(u1[i])]
                    ELSE IF c = "hu" THEN u2
                    ELSE VSub(u1, u2)
          IN  VScale(g, up)
        : x \in { << VSub(fw.thv, fw.hv), VSub(fw.thv, fw.hu),
                     euclidean_distance(fw.thv, fw.hv),
                     euclidean_distance(fw.thv, fw.hu) >> } })

\* The gradient of the variable of feat_id from the gradient of the pooled
\* vector of its construction, whose NodeCounts map is m: through the
\* division by the count sum and the product by the feature's count.
GradThroughMean(pooled, m, feat_id) ==
    VScale(VDivS(pooled, F(CountSum(m, DOMAIN m))), F(m[feat_id]))

\* get_grad of the variable of feature feat_id in construction c.
GetGrad(fw, c, feat_id, gamma) ==
    GradThroughMean(PooledGrad(fw, c, gamma), fw.vars[c], feat_id)

NoNan(grad) == \A i \in DOMAIN grad : ~is_nan(grad[i])

\* extract_grads (ep.rs:179-197) on variables whose gradients, as get_grad
\* returns them, are var_grads: a feature already in the map node_grads is
\* passed over; a gradient is inserted if none of its coordinates is NaN.
ExtractFrom(node_grads, var_grads) ==
    LET fresh == {feat_id \in DOMAIN var_grads :
                     feat_id \notin DOMAIN node_grads /\ NoNan(var_grads[feat_id])}
    IN  node_grads @@ [feat_id \in fresh |-> var_grads[feat_id]]

\* extract_grads for the variables of construction c after the backward
\* pass of fw.  node_grads is the map built so far.
extract_grads(node_grads, fw, c, gamma) ==
    The({ LET m == fw.vars[c]
          IN  ExtractFrom(node_grads,
                          [feat_id \in DOMAIN m |-> GradThroughMean(pooled, m, feat_id)])
        : pooled \in {PooledGrad(fw, c, gamma)} })

\* run_pass after the negative node is drawn (ep.rs:153-173).
RunPassWith(n, node, neg_node, store, es, gamma) ==
    The({ The({ The({ [ loss |-> fw.loss,
                        grads |-> extract_grads(g2, fw, Constructions[3], gamma) ]
                    : g2 \in {extract_grads(g1, fw, Constructions[2], gamma)} })
              : g1 \in {extract_grads(<<>>, fw, Constructions[1], gamma)} })
        : fw \in {Forward(n, node, neg_node, store, es, gamma)} })

\* Mutant: a merge that overwrites the entry instead of adding to it.
MergeGradSetOverwrite(all, grad_set) ==
    [feat \in DOMAIN all \cup DOMAIN grad_set |->
        IF feat \in DOMAIN grad_set THEN grad_set[feat] ELSE all[feat]]

\* The inner loop of the aggregation (ep.rs:121-124): each gradient of one
\* node is added into the entry of its feature, created as zeros.
MergeGradSet(all, grad_set) ==
    [feat \in DOMAIN all \cup DOMAIN grad_set |->
        IF feat \in DOMAIN grad_set
        THEN VAdd(IF feat \in DOMAIN all THEN all[feat] ELSE ZeroVec, grad_set[feat])
        ELSE all[feat]]

\* The aggregation loop over the drained results from slot k on
\* (ep.rs:120-127): the merged map, the error sum and the count.
RECURSIVE AggregateFrom(_, _, _, _, _)
AggregateFrom(results, k, all, err, count) ==
    IF k > Len(results) THEN [ all_grads |-> all, error |-> err, cnt |-> count ]
    ELSE AggregateFrom(results, k + 1, MergeGradSet(all, results[k].grads),
                       FAdd(err, results[k].loss), count + 1)

\* sgd (ep.rs:200-219): the table after every gradient without a NaN
\* coordinate is applied.
sgd(es, grad_map, alpha) ==
    [r \in DOMAIN es |->
        IF (r - 1) \in DOMAIN grad_map /\ NoNan(grad_map[r - 1])
        THEN [i \in DOMAIN es[r] |-> FSub(es[r][i], FMul(alpha, grad_map[r - 1][i]))]
        ELSE es[r]]

\* node_idxs.chunks(batch_size): the chunks of q, in order.
RECURSIVE Chunks(_, _)
Chunks(q, size) ==
    IF q = <<>> THEN <<>>
    ELSE IF Len(q) <= size THEN <<q>>
    ELSE <<SubSeq(q, 1, size)>> \o Chunks(SubSeq(q, size + 1, Len(q)), size)

\* No call of learn_feature_embeddings.
NoTraining ==
    /\ cfg = [n |-> 0, batch_size |-> 0, passes |-> 0, seed |-> 0]
    /\ pc = "Idle"
    /\ feature_embeddings = <<>>
    /\ rng = 0
    /\ node_idxs = <<>>
    /\ pass = 0
    /\ batch = 0
    /\ tasks = <<>>
    /\ grads = <<>>
    /\ all_grads = <<>>
    /\ error = 0
    /\ cnt = 0
    /\ collected = <<>>
    /\ passes_run = <<>>
    /\ evals = 0
    /\ processed = <<>>
    /\ pass_out = <<>>

\* No optimizer constructed and no update called.
NoOptimizer ==
    /\ optimizer = "none"
    /\ mom = <<>>
    /\ var = <<>>
    /\ steps = 0
    /\ applied = [ kind |-> "none", grads |-> <<>>, emb |-> <<>>, mom |-> <<>>, var |-> <<>> ]

\* No function called on its own.
NoCall ==
    /\ args = [ fn |-> "none" ]
    /\ result = <<>>

\* Vocab::new and FeatureStore::new(NumNodes). The two objects share no state,
\* so a client is modelled as driving one of them.
Init ==
    /\ client \in {"Vocab", "FeatureStore"}
    /\ vocab = VocabNew
    /\ ins_log = <<>>
    /\ feat_issued = {}
    /\ features = [n \in NodeIds |-> <<>>]
    /\ feature_vocab = VocabNew
    /\ empty_nodes = 0
    /\ synth_holder = {}
    /\ synth_count = 0
    /\ fills = 0
    /\ last_op = "new"
    /\ NoTraining
    /\ NoOptimizer
    /\ NoCall

Next ==
    \/ \E node \in NodeIds, names \in NameLists : set_features(node, names)
    \/ fill_missing_nodes
    \/ \E nt \in NodeTypes, name \in FeatNames : get_or_insert(nt, name)

Spec == Init /\ [][Next]_vars

----------------------------------------------------------------------------
(* EmbeddingPropagation::learn_feature_embeddings, ep.rs:85-175 *)

\* Largest graph trained on.
MaxTrainNodes == 3
\* Largest batch_size.
MaxBatch == 2
\* Largest number of passes.
MaxPasses == 2
\* Worker threads of the rayon pool.
NumWorkers == 2

Seeds == {0, 7}
Workers == 1 .. NumWorkers

\* alpha = 0.25 and gamma = 1.0
Alpha == Scale \div 4
Gamma == F(1)

\* Name lists given to set_features before training, per node; a node past
\* the end of a row, or with an empty list, gets its features from
\* fill_missing_nodes, as every node of the test's store does.
TrainLists ==
    { <<>>,
      << <<"a", "a", "b">>, <<"a">>, <<"a", "b">> >>,
      << <<"a">>, <<"b">>, <<>>, <<"a", "b">> >> }

\* The FeatureStore built by FeatureStore::new(n), set_features for the
\* listed nodes from node k on, and fill_missing_nodes.
RECURSIVE SetAll(_, _, _, _)
SetAll(f, v, lists, k) ==
    IF k \notin DOMAIN f \/ k + 1 > Len(lists) THEN [ features |-> f, v |-> v ]
    ELSE LET r == CollectFeatureIds(v, lists[k + 1])
         IN  SetAll([f EXCEPT ![k] = r.ids], r.v, lists, k + 1)

BuildStore(n, lists) ==
    LET st == SetAll([k \in 0 .. (n - 1) |-> <<>>], VocabNew, lists, 0)
        r  == FillFrom(st.features, 0, VocabLen(st.v))
    IN  [ features |-> r.features, feature_vocab |-> st.v, empty_nodes |-> Len(r.given) ]

\* The tasks of one chunk, none started.
NewTasks(nodes) ==
    [k \in DOMAIN nodes |-> [node |-> nodes[k], st |-> "pending", worker |-> 0,
                             rng |-> 0, neg_node |-> 0, seen |-> <<>>]]

CurrentChunks == Chunks(node_idxs, cfg.batch_size)

\* ep.rs:92-103: the table is created and randomized, the node list built,
\* Uniform::new(0, n) panics on an empty range, and a loop of zero passes
\* falls through to the return.
Start ==
    /\ pc = "Idle"
    /\ LET r == randomize_embedding_store(EmbeddingStoreNew(FeatureStoreLen),
                                          SeedFromU64(cfg.seed))
       IN  /\ feature_embeddings' = r.es
           /\ rng' = r.rng
    /\ node_idxs' = [k \in 1 .. cfg.n |-> k - 1]
    /\ pc' = IF cfg.n = 0 THEN "Panicked"
             ELSE IF cfg.passes = 0 THEN "Done"
             ELSE "Pass"
    /\ UNCHANGED <<storeVars, fsVars, optVars, callVars, cfg, pass, batch, tasks, grads, all_grads,
                   error, cnt, collected, passes_run, evals, processed, pass_out>>

\* ep.rs:106-109: the shuffle, the reset of error and cnt, and chunks(),
\* which panics on a chunk size of zero.
PassBegin ==
    /\ pc = "Pass"
    /\ LET r == Shuffle(node_idxs, rng)
       IN  /\ node_idxs' = r.seq
           /\ rng' = r.rng
           /\ tasks' = IF cfg.batch_size = 0 THEN <<>>
                       ELSE NewTasks(Chunks(r.seq, cfg.batch_size)[1])
    /\ error' = 0
    /\ cnt' = 0
    /\ batch' = 0
    /\ pc' = IF cfg.batch_size = 0 THEN "Panicked" ELSE "Compute"
    /\ processed' = <<>>
    /\ UNCHANGED <<storeVars, fsVars, optVars, callVars, cfg, feature_embeddings, pass, grads,
                   all_grads, collected, passes_run, evals, pass_out>>

Busy(w) == \E k \in DOMAIN tasks : tasks[k].worker = w /\ tasks[k].st \in {"sampling", "drawn"}

\* Mutant: a generator seeded from the worker thread instead of the node.
TaskRngPerThread(i, node_id, w) == SeedFromU64(cfg.seed + w)

\* ep.rs:113: the generator of the closure run for node_id in chunk i.
TaskRng(i, node_id, w) == SeedFromU64(cfg.seed + (i + node_id))

\* A free worker takes the closure of position k and seeds its generator.
TaskStart(k, w) ==
    /\ pc = "Compute"
    /\ tasks[k].st = "pending"
    /\ ~Busy(w)
    /\ tasks' = [tasks EXCEPT ![k].st = "sampling", ![k].worker = w,
                              ![k].rng = TaskRng(batch, tasks[k].node, w),
                              ![k].seen = feature_embeddings]
    /\ UNCHANGED <<storeVars, fsVars, optVars, callVars, cfg, pc, feature_embeddings, rng, node_idxs, pass,
                   batch, grads, all_grads, error, cnt, collected, passes_run, evals,
                   processed, pass_out>>

\* Mutant: a loop that breaks on every draw.
AcceptedAlways(neg_node, node) == TRUE

\* ep.rs:150: the draw that ends the loop.
Accepted(neg_node, node) == neg_node # node

\* ep.rs:148-151: one turn of the loop that draws the negative node.
TaskSample(k) ==
    /\ pc = "Compute"
    /\ tasks[k].st = "sampling"
    /\ LET neg_node == UniformOf(tasks[k].rng, cfg.n)
       IN  tasks' = [tasks EXCEPT ![k].rng = RngStep(@),
                                  ![k].neg_node = neg_node,
                                  ![k].st = IF Accepted(neg_node, tasks[k].node)
                                            THEN "drawn" ELSE "sampling"]
    /\ UNCHANGED <<storeVars, fsVars, optVars, callVars, cfg, pc, feature_embeddings, rng, node_idxs, pass,
                   batch, grads, all_grads, error, cnt, collected, passes_run, evals,
                   processed, pass_out>>

\* Mutant: collect_into_vec returning at the first result.
BatchCompleteAtFirst(k) == TRUE

\* collect_into_vec (ep.rs:116) returns when every closure of the chunk has
\* returned: the closure of position k is the last one.
BatchComplete(k) == \A j \in DOMAIN tasks : j = k \/ tasks[j].st = "done"

\* ep.rs:153-173 and collect_into_vec: the rest of run_pass, reading the
\* table, and the write of its result into the closure's own slot.
TaskFinish(k) ==
    /\ pc = "Compute"
    /\ tasks[k].st = "drawn"
    /\ grads' = grads @@ (k :> RunPassWith(cfg.n, tasks[k].node, tasks[k].neg_node,
                                           features, feature_embeddings, Gamma))
    /\ tasks' = [tasks EXCEPT ![k].st = "done"]
    /\ evals' = evals + 1
    /\ processed' = Append(processed, tasks[k].node)
    /\ pc' = IF BatchComplete(k) THEN "Aggregate" ELSE "Compute"
    /\ UNCHANGED <<storeVars, fsVars, optVars, callVars, cfg, feature_embeddings, rng, node_idxs,
                   pass, batch, all_grads, error, cnt, collected, passes_run, pass_out>>

\* ep.rs:119-127: clear, then the drained results merged in slot order.
Aggregate ==
    /\ pc = "Aggregate"
    /\ LET results == [k \in 1 .. Len(tasks) |-> grads[k]]
           r == AggregateFrom(results, 1, <<>>, error, cnt)
       IN  /\ all_grads' = r.all_grads
           /\ error' = r.error
           /\ cnt' = r.cnt
           /\ collected' = results
    /\ grads' = <<>>
    /\ pc' = "Sgd"
    /\ UNCHANGED <<storeVars, fsVars, optVars, callVars, cfg, feature_embeddings, rng, node_idxs, pass,
                   batch, tasks, passes_run, evals, processed, pass_out>>

\* ep.rs:128-133: sgd drains the merged map into the table; then the next
\* chunk, or the end of the pass and the next pass, or the return.
SgdStep ==
    /\ pc = "Sgd"
    /\ feature_embeddings' = sgd(feature_embeddings, all_grads, Alpha)
    /\ all_grads' = <<>>
    /\ IF batch + 1 < Len(CurrentChunks)
       THEN /\ batch' = batch + 1
            /\ tasks' = NewTasks(CurrentChunks[batch + 2])
            /\ pc' = "Compute"
            /\ UNCHANGED <<pass, passes_run, pass_out>>
       ELSE /\ passes_run' = Append(passes_run, pass)
            /\ pass_out' = feature_embeddings'
            /\ pass' = pass + 1
            /\ tasks' = <<>>
            /\ pc' = IF pass + 1 < cfg.passes THEN "Pass" ELSE "Done"
            /\ UNCHANGED batch
    /\ UNCHANGED <<storeVars, fsVars, optVars, callVars, cfg, rng, node_idxs, grads, error, cnt,
                   collected, evals, processed>>

\* A FeatureStore prepared for a graph of n nodes and a call of
\* learn_feature_embeddings not yet started.
InitTrain ==
    /\ client = "FeatureStore"
    /\ vocab = VocabNew
    /\ ins_log = <<>>
    /\ feat_issued = {}
    /\ synth_holder = {}
    /\ synth_count = 0
    /\ fills = 1
    /\ last_op = "fill_missing_nodes"
    /\ \E n \in 0 .. MaxTrainNodes, b \in 0 .. MaxBatch, p \in 0 .. MaxPasses,
          sd \in Seeds, lists \in TrainLists :
          /\ cfg = [n |-> n, batch_size |-> b, passes |-> p, seed |-> sd]
          /\ LET st == BuildStore(n, lists)
             IN  /\ features = st.features
                 /\ feature_vocab = st.feature_vocab
                 /\ empty_nodes = st.empty_nodes
    /\ pc = "Idle"
    /\ feature_embeddings = <<>>
    /\ rng = 0
    /\ node_idxs = <<>>
    /\ pass = 0
    /\ batch = 0
    /\ tasks = <<>>
    /\ grads = <<>>
    /\ all_grads = <<>>
    /\ error = 0
    /\ cnt = 0
    /\ collected = <<>>
    /\ passes_run = <<>>
    /\ evals = 0
    /\ processed = <<>>
    /\ pass_out = <<>>
    /\ NoOptimizer
    /\ NoCall

TaskStartAny == \E k \in DOMAIN tasks, w \in Workers : TaskStart(k, w)
TaskSampleAny == \E k \in DOMAIN tasks : TaskSample(k)
TaskFinishAny == \E k \in DOMAIN tasks : TaskFinish(k)

NextTrain ==
    \/ Start
    \/ PassBegin
    \/ TaskStartAny
    \/ TaskSampleAny
    \/ TaskFinishAny
    \/ Aggregate
    \/ SgdStep

SpecTrain == InitTrain /\ [][NextTrain]_vars

\* ENABLED <<TaskFinishAny>>_vars, written out: some closure has drawn its
\* negative node and not yet returned.
TaskFinishEnabled == pc = "Compute" /\ \E k \in DOMAIN tasks : tasks[k].st = "drawn"

\* The thread running learn_feature_embeddings keeps running, and the pool
\* runs every closure handed to it: each step is weakly fair.  The fairness
\* of TaskFinishAny is WF_vars(TaskFinishAny) with its ENABLED written out.
FairTrain ==
    /\ SpecTrain
    /\ WF_vars(Start) /\ WF_vars(PassBegin) /\ WF_vars(Aggregate) /\ WF_vars(SgdStep)
    /\ WF_vars(TaskStartAny) /\ WF_vars(TaskSampleAny)
    /\ ([]<>(~TaskFinishEnabled) \/ []<><<TaskFinishAny>>_vars)

----------------------------------------------------------------------------
(* The parameter updates: sgd (ep.rs:200-219), MomentumOptimizer and        *)
(* AdamOptimizer (optimizer.rs), each called on its own with a gradient map.*)

\* Rows of the tables the updates are called on.
NumFeats == 2
\* Largest number of update calls.
MaxSteps == 2

\* MomentumOptimizer.gamma = 0.5, AdamOptimizer.beta_1 = 0.5 and beta_2 = 0.75
MomGamma == Scale \div 2
Beta1 == Scale \div 2
Beta2 == (3 * Scale) \div 4
\* AdamOptimizer.eps (optimizer.rs:69), as the smallest positive value.
Eps == 1

\* Coordinates of the gradients given to an update.
GradVals == {0, F(1), FNeg(F(1)), NaN, PInf, NInf}
GradVecs == [1 .. Dims -> GradVals]
\* The gradient maps: a vector for some of the features.
GradMaps == UNION {[K -> GradVecs] : K \in SUBSET (0 .. (NumFeats - 1))}

\* f32::powf with an exponent that is a whole number.
RECURSIVE FPow(_, _)
FPow(b, k) == IF k = 0 THEN F(1) ELSE FMul(b, FPow(b, k - 1))

\* optimizer.rs:48: the velocity row after the gradient.
MomentumMom(m, grad) == [i \in DOMAIN m |-> FAdd(FMul(MomGamma, m[i]), grad[i])]
\* optimizer.rs:49: the embedding row after the new velocity.
MomentumEmb(e, m, alpha) == [i \in DOMAIN e |-> FSub(e[i], FMul(alpha, m[i]))]

\* MomentumOptimizer::update (optimizer.rs:31-53): the table and the
\* velocities after every gradient without a NaN coordinate is applied.
MomentumOptimizer_update(es, m, grad_map, alpha) ==
    LET hit(r) == (r - 1) \in DOMAIN grad_map /\ NoNan(grad_map[r - 1])
        m2 == [r \in DOMAIN m |-> IF hit(r) THEN MomentumMom(m[r], grad_map[r - 1]) ELSE m[r]]
    IN  [ es  |-> [r \in DOMAIN es |-> IF hit(r) THEN MomentumEmb(es[r], m2[r], alpha)
                                       ELSE es[r]],
          mom |-> m2 ]

\* optimizer.rs:92-94: the first moment row.
AdamMom(m, grad) ==
    [i \in DOMAIN m |-> FAdd(FMul(Beta1, m[i]), FMul(FSub(F(1), Beta1), grad[i]))]
\* optimizer.rs:98-100: the second moment row.
AdamVar(v, grad) ==
    [i \in DOMAIN v |-> FAdd(FMul(Beta2, v[i]),
                             FMul(FSub(F(1), Beta2), FMul(grad[i], grad[i])))]
\* optimizer.rs:104-109: the embedding row, from the corrected moments.
AdamEmb(e, m, v, alpha, step) ==
    [i \in DOMAIN e |->
        LET m_i == FDiv(m[i], FSub(F(1), FPow(Beta1, step)))
            v_i == FDiv(v[i], FSub(F(1), FPow(Beta2, step)))
            g_i == FDiv(m_i, FAdd(FSqrt(v_i), Eps))
        IN  FSub(e[i], FMul(alpha, g_i))]

\* AdamOptimizer::update (optimizer.rs:75-113), called with step count tt:
\* the table and both moments after every gradient without a NaN coordinate
\* is applied.  The rows of distinct features are disjoint, so the order in
\* which the parallel iterator visits them does not show.
AdamOptimizer_update(es, m, v, grad_map, alpha, tt) ==
    LET step == tt + 1
        hit(r) == (r - 1) \in DOMAIN grad_map /\ NoNan(grad_map[r - 1])
        m2 == [r \in DOMAIN m |-> IF hit(r) THEN AdamMom(m[r], grad_map[r - 1]) ELSE m[r]]
        v2 == [r \in DOMAIN v |-> IF hit(r) THEN AdamVar(v[r], grad_map[r - 1]) ELSE v[r]]
    IN  [ es  |-> [r \in DOMAIN es |-> IF hit(r) THEN AdamEmb(es[r], m2[r], v2[r], alpha, step)
                                       ELSE es[r]],
          mom |-> m2,
          var |-> v2 ]

\* The tables as they are when update is entered.
Before(kind, grad_map) ==
    [ kind |-> kind, grads |-> grad_map, emb |-> feature_embeddings, mom |-> mom, var |-> var ]

\* A call of sgd.
SgdUpdate(grad_map) ==
    /\ optimizer = "sgd"
    /\ steps < MaxSteps
    /\ feature_embeddings' = sgd(feature_embeddings, grad_map, Alpha)
    /\ applied' = Before("sgd", grad_map)
    /\ steps' = steps + 1
    /\ UNCHANGED <<storeVars, fsVars, callVars, processed, pass_out, cfg, pc, rng, node_idxs, pass, batch, tasks, grads,
                   all_grads, error, cnt, collected, passes_run, evals, optimizer, mom, var>>

\* A call of MomentumOptimizer::update.
MomentumUpdate(grad_map) ==
    /\ optimizer = "Momentum"
    /\ steps < MaxSteps
    /\ LET r == MomentumOptimizer_update(feature_embeddings, mom, grad_map, Alpha)
       IN  /\ feature_embeddings' = r.es
           /\ mom' = r.mom
    /\ applied' = Before("Momentum", grad_map)
    /\ steps' = steps + 1
    /\ UNCHANGED <<storeVars, fsVars, callVars, processed, pass_out, cfg, pc, rng, node_idxs, pass, batch, tasks, grads,
                   all_grads, error, cnt, collected, passes_run, evals, optimizer, var>>

\* A call of AdamOptimizer::update with the number of earlier calls as t.
AdamUpdate(grad_map) ==
    /\ optimizer = "Adam"
    /\ steps < MaxSteps
    /\ LET r == AdamOptimizer_update(feature_embeddings, mom, var, grad_map, Alpha, steps)
       IN  /\ feature_embeddings' = r.es
           /\ mom' = r.mom
           /\ var' = r.var
    /\ applied' = Before("Adam", grad_map)
    /\ steps' = steps + 1
    /\ UNCHANGED <<storeVars, fsVars, callVars, processed, pass_out, cfg, pc, rng, node_idxs, pass, batch, tasks, grads,
                   all_grads, error, cnt, collected, passes_run, evals, optimizer>>

\* Rows of the feature table before the first update.
StartRows == {ZeroVec, [i \in 1 .. Dims |-> F(1)]}

\* A feature table of NumFeats rows and an optimizer constructed for it by
\* MomentumOptimizer::new or AdamOptimizer::new (optimizer.rs:23-26, 66-70),
\* whose moment tables start at zero.
InitOpt ==
    /\ client = "FeatureStore"
    /\ vocab = VocabNew
    /\ ins_log = <<>>
    /\ feat_issued = {}
    /\ synth_holder = {}
    /\ synth_count = 0
    /\ fills = 0
    /\ last_op = "new"
    /\ features = <<>>
    /\ feature_vocab = VocabNew
    /\ empty_nodes = 0
    /\ cfg = [n |-> 0, batch_size |-> 0, passes |-> 0, seed |-> 0]
    /\ pc = "Idle"
    /\ \E row \in StartRows : feature_embeddings = [r \in 1 .. NumFeats |-> row]
    /\ rng = 0
    /\ node_idxs = <<>>
    /\ pass = 0
    /\ batch = 0
    /\ tasks = <<>>
    /\ grads = <<>>
    /\ all_grads = <<>>
    /\ error = 0
    /\ cnt = 0
    /\ collected = <<>>
    /\ passes_run = <<>>
    /\ evals = 0
    /\ processed = <<>>
    /\ pass_out = <<>>
    /\ optimizer \in {"sgd", "Momentum", "Adam"}
    /\ mom = EmbeddingStoreNew(NumFeats)
    /\ var = EmbeddingStoreNew(NumFeats)
    /\ steps = 0
    /\ applied = [ kind |-> "none", grads |-> <<>>, emb |-> <<>>, mom |-> <<>>, var |-> <<>> ]
    /\ NoCall

NextOpt ==
    \/ \E grad_map \in GradMaps : SgdUpdate(grad_map)
    \/ \E grad_map \in GradMaps : MomentumUpdate(grad_map)
    \/ \E grad_map \in GradMaps : AdamUpdate(grad_map)

SpecOpt == InitOpt /\ [][NextOpt]_vars

----------------------------------------------------------------------------
(* AdamOptimizer::update step by step (optimizer.rs:82-112): into_par_iter *)
(* makes one task of each entry of the gradient map, and the tasks run in  *)
(* any interleaving of their three row updates.                            *)

\* Gradients given to the step-by-step update: every coordinate the same.
UniformGrads == {[i \in 1 .. Dims |-> g] : g \in {F(1), NaN}}
UniformGradMaps == UNION {[K -> UniformGrads] : K \in SUBSET (0 .. (NumFeats - 1))}

\* Mutant: every feature on the first row.
RowFirst(feat_id) == 1

\* get_embedding_mut_hogwild(feat_id): the row of a table that belongs to a
\* feature (rows are numbered from 1 in the model).
RowOf(feat_id) == feat_id + 1

\* optimizer.rs:82-83: update is entered and the entries of the map become
\* the tasks of the parallel iterator.
AdamBegin(grad_map) ==
    /\ optimizer = "Adam"
    /\ pc = "Idle"
    /\ steps < MaxSteps
    /\ LET order == KeyOrder(DOMAIN grad_map)
       IN  tasks' = [i \in 1 .. Len(order) |->
                        [ feat_id |-> order[i], grad |-> grad_map[order[i]], st |-> "start" ]]
    /\ applied' = Before("Adam", grad_map)
    /\ pc' = "Update"
    /\ UNCHANGED <<storeVars, fsVars, callVars, processed, pass_out, cfg, feature_embeddings, rng,
                   node_idxs, pass, batch, grads, all_grads, error, cnt, collected, passes_run,
                   evals, optimizer, mom, var, steps>>

\* optimizer.rs:88-94: the NaN test of a task and its first-moment row.
AdamTaskMom(k) ==
    /\ pc = "Update"
    /\ tasks[k].st = "start"
    /\ IF NoNan(tasks[k].grad)
       THEN /\ mom' = [mom EXCEPT ![RowOf(tasks[k].feat_id)] = AdamMom(@, tasks[k].grad)]
            /\ tasks' = [tasks EXCEPT ![k].st = "var"]
       ELSE /\ mom' = mom
            /\ tasks' = [tasks EXCEPT ![k].st = "done"]
    /\ UNCHANGED <<storeVars, fsVars, callVars, processed, pass_out, cfg, pc, feature_embeddings,
                   rng, node_idxs, pass, batch, grads, all_grads, error, cnt, collected,
                   passes_run, evals, optimizer, var, steps, applied>>

\* optimizer.rs:97-100: the second-moment row of a task.
AdamTaskVar(k) ==
    /\ pc = "Update"
    /\ tasks[k].st = "var"
    /\ var' = [var EXCEPT ![RowOf(tasks[k].feat_id)] = AdamVar(@, tasks[k].grad)]
    /\ tasks' = [tasks EXCEPT ![k].st = "emb"]
    /\ UNCHANGED <<storeVars, fsVars, callVars, processed, pass_out, cfg, pc, feature_embeddings,
                   rng, node_idxs, pass, batch, grads, all_grads, error, cnt, collected,
                   passes_run, evals, optimizer, mom, steps, applied>>

\* optimizer.rs:103-109: the embedding row of a task, from the moment rows as
\* they are when it reads them.
AdamTaskEmb(k) ==
    /\ pc = "Update"
    /\ tasks[k].st = "emb"
    /\ LET row == RowOf(tasks[k].feat_id)
       IN  feature_embeddings' =
               [feature_embeddings EXCEPT ![row] = AdamEmb(@, mom[row], var[row], Alpha, steps + 1)]
    /\ tasks' = [tasks EXCEPT ![k].st = "done"]
    /\ UNCHANGED <<storeVars, fsVars, callVars, processed, pass_out, cfg, pc, rng, node_idxs,
                   pass, batch, grads, all_grads, error, cnt, collected, passes_run, evals,
                   optimizer, mom, var, steps, applied>>

\* optimizer.rs:112-113: for_each returns when every task has.
AdamEnd ==
    /\ pc = "Update"
    /\ \A k \in DOMAIN tasks : tasks[k].st = "done"
    /\ pc' = "Idle"
    /\ tasks' = <<>>
    /\ steps' = steps + 1
    /\ UNCHANGED <<storeVars, fsVars, callVars, processed, pass_out, cfg, feature_embeddings, rng,
                   node_idxs, pass, batch, grads, all_grads, error, cnt, collected, passes_run,
                   evals, optimizer, mom, var, applied>>

\* AdamOptimizer::new(0.5, 0.75, Dims, NumFeats) and a table of NumFeats rows.
InitAdam == InitOpt /\ optimizer = "Adam"

NextAdam ==
    \/ \E grad_map \in UniformGradMaps : AdamBegin(grad_map)
    \/ \E k \in DOMAIN tasks : AdamTaskMom(k)
    \/ \E k \in DOMAIN tasks : AdamTaskVar(k)
    \/ \E k \in DOMAIN tasks : AdamTaskEmb(k)
    \/ AdamEnd

SpecAdam == InitAdam /\ [][NextAdam]_vars

----------------------------------------------------------------------------
(* The functions of ep.rs and ep/model.rs called on their own, once, with   *)
(* arguments drawn from small sets.                                         *)

\* Coordinates of the embeddings handed to the functions: zero, one, minus
\* one and the largest finite value.
EmbVals == {0, F(1), FNeg(F(1)), MaxFinite}
EmbVecs == [1 .. Dims -> EmbVals]
\* Values of gamma: 0, 0.5, 1 and 2.
GammaVals == {0, Scale \div 2, F(1), F(2)}

\* Nothing constructed and no function called yet.
InitFn ==
    /\ client = "FeatureStore"
    /\ vocab = VocabNew
    /\ ins_log = <<>>
    /\ feat_issued = {}
    /\ synth_holder = {}
    /\ synth_count = 0
    /\ fills = 0
    /\ last_op = "new"
    /\ features = <<>>
    /\ feature_vocab = VocabNew
    /\ empty_nodes = 0
    /\ NoTraining
    /\ NoOptimizer
    /\ NoCall

\* margin_loss(thv, hv, hu, gamma), and the same call with gamma2 >= gamma.
CallMarginLoss(thv, hv, hu, gamma, gamma2) ==
    /\ args.fn = "none"
    /\ gamma <= gamma2
    /\ args' = [ fn |-> "margin_loss", thv |-> thv, hv |-> hv, hu |-> hu,
                 gamma |-> gamma, gamma2 |-> gamma2 ]
    /\ result' = [ loss  |-> margin_loss(thv, hv, hu, gamma),
                   loss2 |-> margin_loss(thv, hv, hu, gamma2) ]
    /\ UNCHANGED <<storeVars, fsVars, trainVars, optVars>>

\* Keys and multiplicities of the feature maps pooled.
PoolKeys == 0 .. 2
PoolCounts == 1 .. 2
\* The NodeCounts maps: a multiplicity for some of the features.
PoolMaps == UNION {[K -> PoolCounts] : K \in (SUBSET PoolKeys) \ {{}}}
\* Coordinates of the embeddings pooled: one and the largest finite values.
PoolVals == {F(1), MaxFinite, -MaxFinite}
\* The feature tables: a row for every key.
PoolTables == [1 .. Cardinality(PoolKeys) -> [1 .. Dims -> PoolVals]]
\* The orders in which an iterator can yield the keys K.
Orders(K) == {q \in [1 .. Cardinality(K) -> K] : \A i, j \in DOMAIN q : i # j => q[i] # q[j]}

\* mean_embeddings of ep.rs and of ep/model.rs on the entries of feat_map,
\* once as the model iterates the map and once in another order.
CallMeanEmbeddings(feat_map, es, order) ==
    /\ args.fn = "none"
    /\ args' = [ fn |-> "mean_embeddings", feat_map |-> feat_map, es |-> es, order |-> order ]
    /\ result' = [ mean   |-> mean_embeddings(feat_map, es),
                   other  |-> MeanVisited(feat_map, order, es),
                   pooled |-> MeanPooled(feat_map, KeyOrder(DOMAIN feat_map), es),
                   pooled_other |-> MeanPooled(feat_map, order, es) ]
    /\ UNCHANGED <<storeVars, fsVars, trainVars, optVars>>

\* Coordinates of the gradients get_grad returns: a finite value, NaN and
\* an infinity.
BackwardVals == {F(1), NaN, NInf}
\* The gradients of the variables of one construction: a vector for some of
\* the features.
BackwardMaps == UNION {[K -> [1 .. Dims -> BackwardVals]] : K \in SUBSET (0 .. 1)}

\* extract_grads on a map node_grads built by earlier calls and variables
\* with the gradients var_grads.
CallExtractGrads(node_grads, var_grads) ==
    /\ args.fn = "none"
    /\ \A feat_id \in DOMAIN node_grads : NoNan(node_grads[feat_id])
    /\ args' = [ fn |-> "extract_grads", node_grads |-> node_grads, var_grads |-> var_grads ]
    /\ result' = ExtractFrom(node_grads, var_grads)
    /\ UNCHANGED <<storeVars, fsVars, trainVars, optVars>>

\* The graphs and stores the strategies are called on: a complete graph on
\* three nodes, each with one or two of two features.
ModelNodes == 0 .. 2
ModelFeats == {<<0>>, <<1>>, <<0, 1>>}
ModelStores == [ModelNodes -> ModelFeats]
\* Coordinates of the two feature embeddings: zero, one and two.
ModelVals == {0, F(1), F(2)}
ModelTables == [1 .. 2 -> [1 .. Dims -> ModelVals]]
\* The node sequences construct_from_multiple_nodes is called with.
NodeSeqs == {<<a>> : a \in ModelNodes} \cup {<<a, b>> : a, b \in ModelNodes}

\* Model::construct_node_embedding of one strategy.
CallConstruct(strategy, node, store, es) ==
    /\ args.fn = "none"
    /\ args' = [ fn |-> "construct_node_embedding", strategy |-> strategy, node |-> node,
                 store |-> store, es |-> es ]
    /\ result' = Model_construct_node_embedding(strategy, node, store, es)
    /\ UNCHANGED <<storeVars, fsVars, trainVars, optVars>>

\* Model::reconstruct_node_embedding of one strategy.
CallReconstruct(strategy, node, store, es) ==
    /\ args.fn = "none"
    /\ args' = [ fn |-> "reconstruct_node_embedding", strategy |-> strategy, node |-> node,
                 store |-> store, es |-> es ]
    /\ result' = Model_reconstruct_node_embedding(strategy, Cardinality(ModelNodes), node, store, es)
    /\ UNCHANGED <<storeVars, fsVars, trainVars, optVars>>

\* Model::construct_from_multiple_nodes of one strategy.
CallConstructFromMultiple(strategy, nodes, store, es) ==
    /\ args.fn = "none"
    /\ args' = [ fn |-> "construct_from_multiple_nodes", strategy |-> strategy, nodes |-> nodes,
                 store |-> store, es |-> es ]
    /\ result' = Model_construct_from_multiple_nodes(strategy, nodes, store, es)
    /\ UNCHANGED <<storeVars, fsVars, trainVars, optVars>>

NextFn ==
    \/ args.fn = "none" /\ \E node_grads \in BackwardMaps, var_grads \in BackwardMaps :
          CallExtractGrads(node_grads, var_grads)
    \/ args.fn = "none" /\ \E feat_map \in PoolMaps, es \in PoolTables :
          \E order \in Orders(DOMAIN feat_map) : CallMeanEmbeddings(feat_map, es, order)
    \/ args.fn = "none" /\ \E thv \in EmbVecs, hv \in EmbVecs, hu \in EmbVecs,
          gamma \in GammaVals, gamma2 \in GammaVals :
          CallMarginLoss(thv, hv, hu, gamma, gamma2)
    \/ args.fn = "none" /\ \E strategy \in Strategies, node \in ModelNodes, store \in ModelStores, es \in ModelTables :
          CallConstruct(strategy, node, store, es)
    \/ args.fn = "none" /\ \E strategy \in Strategies, node \in ModelNodes, store \in ModelStores, es \in ModelTables :
          CallReconstruct(strategy, node, store, es)
    \/ args.fn = "none" /\ \E strategy \in Strategies, nodes \in NodeSeqs, store \in ModelStores, es \in ModelTables :
          CallConstructFromMultiple(strategy, nodes, store, es)

SpecFn == InitFn /\ [][NextFn]_vars

----------------------------------------------------------------------------
(* Properties of FeatureStore and Vocab, checked under Spec. *)

\* C1: when fill_missing_nodes has just returned, every node of the
\* FeatureStore has a non-empty feature list, whatever set_features calls
\* (with empty or non-empty name lists, on some nodes or none) came before.
C1_FilledNonEmpty ==
    last_op = "fill_missing_nodes" => \A n \in NodeIds : Len(features[n]) > 0

\* A fill has returned in a store where one node was given features by
\* set_features and another received a synthesized id.
C1_Witness ==
    /\ last_op = "fill_missing_nodes"
    /\ synth_holder # {}
    /\ synth_holder # NodeIds
    /\ VocabLen(feature_vocab) > 0

\* C2: the ids fill_missing_nodes has given out are fresh and unique: no two
\* nodes hold the same synthesized singleton id, and no synthesized singleton
\* id held by a node is an id the vocabulary has issued to a named feature.
C2_FreshUniqueSingletons ==
    /\ \A m, n \in synth_holder : m # n => features[m] # features[n]
    /\ \A n \in synth_holder : features[n][1] >= VocabLen(feature_vocab)

PairsOf(log) == {<<log[i][1], log[i][2]>> : i \in DOMAIN log}

\* C3: get_or_insert is idempotent and injective: the same (type, name)
\* always gets the same id, distinct pairs get distinct ids, Vocab::len() is
\* the number of distinct pairs inserted, and FeatureStore::len() is the
\* number of distinct names inserted plus the number of synthesized ids.
C3_VocabIdempotentInjective ==
    /\ \A i, j \in DOMAIN ins_log :
          (ins_log[i][1] = ins_log[j][1] /\ ins_log[i][2] = ins_log[j][2])
              <=> ins_log[i][3] = ins_log[j][3]
    /\ VocabLen(vocab) = Cardinality(PairsOf(ins_log))
    /\ \A e, f \in feat_issued : e[1] = f[1] <=> e[2] = f[2]
    /\ VocabLen(feature_vocab) = Cardinality({e[1] : e \in feat_issued})
    /\ FeatureStoreLen = Cardinality({e[1] : e \in feat_issued}) + synth_count

\* A pair has been inserted twice, and pairs of two types have been inserted.
C3_Witness ==
    /\ \E i, j \in DOMAIN ins_log :
          i < j /\ ins_log[i][1] = ins_log[j][1] /\ ins_log[i][2] = ins_log[j][2]
    /\ \E i, j \in DOMAIN ins_log : ins_log[i][1] # ins_log[j][1]

\* C4: lookups round-trip with insertion: for every pair inserted with id
\* returned, whatever was inserted later, get_node_id(type, name) is Some(id)
\* and get_name(id) is exactly (type, name).
C4_LookupRoundTrip ==
    \A i \in DOMAIN ins_log :
        /\ GetNodeId(vocab, ins_log[i][1], ins_log[i][2]) = Some(ins_log[i][3])
        /\ GetName(vocab, ins_log[i][3]) = Some(<<ins_log[i][1], ins_log[i][2]>>)

\* Three distinct pairs are in the vocabulary, of both types, the first of
\* them inserted before the others.
C4_Witness ==
    /\ Len(ins_log) = 3
    /\ Cardinality(PairsOf(ins_log)) = 3
    /\ ins_log[1][1] # ins_log[3][1]

----------------------------------------------------------------------------
(* Properties of the training loop, checked under SpecTrain and FairTrain. *)

\* The configurations the specification calls malformed.
Malformed == cfg.batch_size = 0 \/ cfg.passes = 0 \/ cfg.n = 0

\* C5: on a malformed configuration (zero batch size, zero passes or zero
\* nodes) learn_feature_embeddings never returns an embedding table and no
\* run_pass is evaluated.
C5_RefusesMalformed ==
    Malformed => (pc # "Done" /\ evals = 0)

\* C6: for every configuration with at least one pass, a batch size of at
\* least one and at least one node, the loop eventually reaches Done having
\* run exactly the passes 0 .. P-1 in order.
C6_TerminatesAfterPasses ==
    (cfg.passes >= 1 /\ cfg.batch_size >= 1 /\ cfg.n >= 1)
        => <>(pc = "Done" /\ passes_run = [i \in 1 .. cfg.passes |-> i - 1])

\* The negative node run_pass draws from generator state s for anchor node:
\* the first draw that is not the anchor.
RECURSIVE FirstOther(_, _, _)
FirstOther(s, n, node) ==
    IF UniformOf(s, n) # node THEN UniformOf(s, n) ELSE FirstOther(RngStep(s), n, node)

\* The result of run_pass for a node of chunk i as the seed, the chunk index,
\* the node id and the table alone determine it.
SeededResult(i, node) ==
    RunPassWith(cfg.n, node, FirstOther(SeedFromU64(cfg.seed + i + node), cfg.n, node),
                features, feature_embeddings, Gamma)

OccursIn(fw, feat_id) ==
    SelectSeq(Constructions, LAMBDA c : feat_id \in DOMAIN fw.vars[c])

\* The forward pass of the closure at position k of the chunk.
ForwardOf(k) ==
    Forward(cfg.n, tasks[k].node, tasks[k].neg_node, features, feature_embeddings, Gamma)

\* The gradient read at the first occurrence of feat_id in the forward pass
\* of position k.
FirstGrad(k, feat_id) ==
    GetGrad(ForwardOf(k), OccursIn(ForwardOf(k), feat_id)[1], feat_id, Gamma)

\* C9: in every result of run_pass, a feature that occurs in more than one
\* of the three constructions has one vector in the gradient map, the
\* gradient read at its first occurrence in the order direct, reconstructed,
\* negative (none if that gradient is dropped for a NaN); a later occurrence
\* neither replaces it nor adds to it.
C9_FirstOccurrenceWins ==
    \A k \in DOMAIN grads :
        \A feat_id \in UNION {DOMAIN ForwardOf(k).vars[c] : c \in {"hv", "thv", "hu"}} :
            Len(OccursIn(ForwardOf(k), feat_id)) > 1 =>
                /\ NoNan(FirstGrad(k, feat_id)) => feat_id \in DOMAIN grads[k].grads
                /\ feat_id \in DOMAIN grads[k].grads =>
                       grads[k].grads[feat_id] = FirstGrad(k, feat_id)

\* The sum of the gradients of feat over the first k results, in slot order.
RECURSIVE SumOfFeature(_, _, _)
SumOfFeature(results, feat, k) ==
    IF k = 0 THEN ZeroVec
    ELSE IF feat \in DOMAIN results[k].grads
         THEN VAdd(SumOfFeature(results, feat, k - 1), results[k].grads[feat])
         ELSE SumOfFeature(results, feat, k - 1)

\* C10: the merged map handed to sgd has as keys the union of the keys of
\* the chunk's per-node maps and, for every key, the coordinate-wise sum of
\* that feature's vectors over the nodes of the chunk that carry it; the map
\* is empty while the next chunk is computed, so nothing of an earlier chunk
\* is in it.
C10_AggregationSums ==
    /\ pc = "Sgd" =>
          /\ DOMAIN all_grads = UNION {DOMAIN collected[k].grads : k \in DOMAIN collected}
          /\ \A feat \in DOMAIN all_grads :
                 all_grads[feat] = SumOfFeature(collected, feat, Len(collected))
    /\ pc \in {"Pass", "Compute", "Aggregate"} => all_grads = <<>>

\* A second or later chunk has been merged, in which two nodes carry the
\* same feature with gradients that are not zero.
C10_Witness ==
    /\ pc = "Sgd"
    /\ batch + pass > 0
    /\ \E feat \in DOMAIN all_grads :
          /\ Len(collected) = 2
          /\ feat \in DOMAIN collected[1].grads
          /\ feat \in DOMAIN collected[2].grads
          /\ collected[1].grads[feat] # ZeroVec
          /\ collected[2].grads[feat] # ZeroVec
          /\ all_grads[feat] # collected[2].grads[feat]

----------------------------------------------------------------------------
(* Properties of the parameter updates, checked under SpecOpt. *)

\* A gradient with a NaN or an infinite coordinate.
NonFinite(grad) == \E i \in DOMAIN grad : ~is_finite(grad[i])

\* C8: after an update by sgd, Momentum or Adam, every feature whose
\* incoming gradient has a non-finite coordinate (NaN, +infinity or
\* -infinity) has the embedding row and the moment rows it had before.
C8_NonFiniteSkipped ==
    applied.kind # "none" =>
        \A feat_id \in DOMAIN applied.grads :
            NonFinite(applied.grads[feat_id]) =>
                /\ feature_embeddings[feat_id + 1] = applied.emb[feat_id + 1]
                /\ mom[feat_id + 1] = applied.mom[feat_id + 1]
                /\ var[feat_id + 1] = applied.var[feat_id + 1]

\* What the updates do guarantee: a feature whose gradient has a NaN
\* coordinate keeps its rows.
NanSkipped ==
    applied.kind # "none" =>
        \A feat_id \in DOMAIN applied.grads :
            ~NoNan(applied.grads[feat_id]) =>
                /\ feature_embeddings[feat_id + 1] = applied.emb[feat_id + 1]
                /\ mom[feat_id + 1] = applied.mom[feat_id + 1]
                /\ var[feat_id + 1] = applied.var[feat_id + 1]

----------------------------------------------------------------------------
(* Properties of the functions called on their own, checked under SpecFn. *)

\* C11: margin_loss(reconstructed, direct, negative, gamma) is
\* max(0, gamma + d1 - d2) for d1 the distance from the reconstructed to the
\* direct vector and d2 the distance from the reconstructed to the negative
\* one: 0 whenever d1 + gamma <= d2, strictly positive otherwise, and for
\* the same vectors not smaller for a larger gamma.
C11_MarginLoss ==
    args.fn = "margin_loss" =>
        LET d1 == euclidean_distance(args.thv, args.hv)
            d2 == euclidean_distance(args.thv, args.hu)
        IN  /\ ~is_nan(d1) /\ ~is_nan(d2) /\ ~is_nan(result.loss)
            /\ FAdd(d1, args.gamma) <= d2 => result.loss = 0
            /\ FAdd(d1, args.gamma) > d2 => result.loss > 0
            /\ result.loss <= result.loss2

\* A call whose loss is positive and grows with gamma, the two distances
\* differing.
C11_Witness ==
    /\ args.fn = "margin_loss"
    /\ euclidean_distance(args.thv, args.hv) > euclidean_distance(args.thv, args.hu)
    /\ euclidean_distance(args.thv, args.hu) > 0
    /\ result.loss > 0
    /\ result.loss < result.loss2

\* The sum of count * embedding over the keys, coordinate i, as an integer
\* of unbounded size.
RECURSIVE ExactSum(_, _, _, _)
ExactSum(feat_map, keys, es, i) ==
    IF keys = {} THEN 0
    ELSE LET f == Min(keys)
         IN  feat_map[f] * GetEmbedding(es, f)[i] + ExactSum(feat_map, keys \ {f}, es, i)

\* The multiplicity-weighted arithmetic mean sum(count * emb) / sum(count).
ExactMean(feat_map, es) ==
    [i \in 1 .. Dims |-> FDiv(Overflow(ExactSum(feat_map, DOMAIN feat_map, es, i)),
                              F(CountSum(feat_map, DOMAIN feat_map)))]

\* Every partial sum of the entries visited in this order is finite: no
\* addition overflows.
RECURSIVE SumsExact(_, _, _, _)
SumsExact(feat_map, order, es, k) ==
    \/ k > Len(order)
    \/ /\ \A i \in 1 .. Dims :
              is_finite(WeightedSum(feat_map, SubSeq(order, 1, k), es, ZeroVec)[i])
       /\ SumsExact(feat_map, order, es, k + 1)

\* A single feature of multiplicity 1 is returned unchanged.
SingleUnchanged ==
    (Cardinality(DOMAIN args.feat_map) = 1 /\ \A f \in DOMAIN args.feat_map : args.feat_map[f] = 1)
        => \A f \in DOMAIN args.feat_map :
               /\ result.mean = GetEmbedding(args.es, f)
               /\ result.pooled = GetEmbedding(args.es, f)

\* C12 as stated: averaged pooling gives the same vector in whatever order
\* the (feature, multiplicity) entries are visited, and a single feature of
\* multiplicity 1 is returned unchanged.
C12_OrderIndependent ==
    args.fn = "mean_embeddings" =>
        /\ result.other = result.mean
        /\ result.pooled_other = result.pooled
        /\ SingleUnchanged

\* C12, amended: for the orders in which no partial sum overflows, averaged
\* pooling is the multiplicity-weighted mean sum(count * emb) / sum(count)
\* whatever the order, in ep.rs and in ep/model.rs alike, and a single
\* feature of multiplicity 1 is returned unchanged.
C12_OrderIndependentExact ==
    (/\ args.fn = "mean_embeddings"
     /\ SumsExact(args.feat_map, KeyOrder(DOMAIN args.feat_map), args.es, 1)
     /\ SumsExact(args.feat_map, args.order, args.es, 1))
        => /\ result.mean = ExactMean(args.feat_map, args.es)
           /\ result.other = result.mean
           /\ result.pooled = result.mean
           /\ result.pooled_other = result.mean
           /\ SingleUnchanged

\* Three features, one of them repeated, visited in an order that is not
\* the ascending one, with no overflow.
C12_Witness ==
    /\ args.fn = "mean_embeddings"
    /\ Cardinality(DOMAIN args.feat_map) = 3
    /\ \E f \in DOMAIN args.feat_map : args.feat_map[f] = 2
    /\ args.order # KeyOrder(DOMAIN args.feat_map)
    /\ SumsExact(args.feat_map, KeyOrder(DOMAIN args.feat_map), args.es, 1)
    /\ SumsExact(args.feat_map, args.order, args.es, 1)
    /\ \E r1, r2 \in DOMAIN args.es : args.es[r1] # args.es[r2]

\* C13: extract_grads keeps the gradient of a variable only if every
\* coordinate is finite: a gradient with a NaN, +infinity or -infinity
\* coordinate is not inserted, and every vector inserted is finite.
C13_OnlyFiniteKept ==
    args.fn = "extract_grads" =>
        \A feat_id \in DOMAIN args.var_grads \ DOMAIN args.node_grads :
            /\ NonFinite(args.var_grads[feat_id]) => feat_id \notin DOMAIN result
            /\ feat_id \in DOMAIN result => ~NonFinite(result[feat_id])

\* What extract_grads does guarantee: no vector inserted has a NaN.
NoNanKept ==
    args.fn = "extract_grads" =>
        \A feat_id \in DOMAIN result \ DOMAIN args.node_grads : NoNan(result[feat_id])

----------------------------------------------------------------------------
(* More properties of the training loop, checked under SpecTrain. *)

\* q holds every node id of 0 .. n-1 once.
IsPermutation(q, n) ==
    /\ Len(q) = n
    /\ \A node \in 0 .. (n - 1) : Cardinality({i \in DOMAIN q : q[i] = node}) = 1

\* The concatenation of the chunks from chunk i on.
RECURSIVE Flatten(_, _)
Flatten(chunks, i) == IF i > Len(chunks) THEN <<>> ELSE chunks[i] \o Flatten(chunks, i + 1)

\* C14: in every pass the shuffled id sequence is a permutation of 0 .. N-1,
\* split into contiguous batches of batch_size ids, the last of 1 to
\* batch_size ids; the closures of a batch are those of its nodes and the
\* step of the batch receives the results of exactly these nodes; no node
\* is processed twice in a pass, and at the end of the pass every node has
\* been processed once.
C14_EachNodeOncePerPass ==
    /\ pc \in {"Pass", "Compute", "Aggregate", "Sgd", "Done"} => IsPermutation(node_idxs, cfg.n)
    /\ \A i, j \in DOMAIN processed : i # j => processed[i] # processed[j]
    /\ pc \in {"Compute", "Aggregate", "Sgd"} =>
          /\ Flatten(CurrentChunks, 1) = node_idxs
          /\ \A i \in 1 .. (Len(CurrentChunks) - 1) : Len(CurrentChunks[i]) = cfg.batch_size
          /\ Len(CurrentChunks[Len(CurrentChunks)]) \in 1 .. cfg.batch_size
          /\ [k \in DOMAIN tasks |-> tasks[k].node] = CurrentChunks[batch + 1]
          /\ LET before == Flatten(SubSeq(CurrentChunks, 1, batch), 1)
                 done == {k \in DOMAIN tasks : tasks[k].st = "done"}
             IN  /\ Len(processed) = Len(before) + Cardinality(done)
                 /\ {processed[i] : i \in 1 .. Len(before)} = {before[i] : i \in DOMAIN before}
                 /\ {processed[i] : i \in (Len(before) + 1) .. Len(processed)}
                        = {tasks[k].node : k \in done}
    /\ pc = "Sgd" =>
          /\ Len(collected) = Len(CurrentChunks[batch + 1])
          /\ cnt = Len(processed)
          /\ \A k \in DOMAIN collected :
                 collected[k] = RunPassWith(cfg.n, CurrentChunks[batch + 1][k],
                                            tasks[k].neg_node, features,
                                            feature_embeddings, Gamma)
    /\ (pass > 0 /\ pc \in {"Pass", "Done"}) => IsPermutation(processed, cfg.n)

\* The end of a second pass over three nodes in batches of two, the last
\* batch being of one node, in an order that is not 0, 1, 2.
C14_Witness ==
    /\ pc = "Done"
    /\ cfg.n = 3
    /\ cfg.batch_size = 2
    /\ pass = 2
    /\ node_idxs # <<0, 1, 2>>
    /\ Len(processed) = 3

\* C15: in every batch all closures have returned before the aggregation
\* starts, the aggregation is over before sgd runs, the table is as every
\* closure of the batch found it for as long as a closure is running and
\* until sgd, and a pass starts from the table the pass before left.
C15_BatchBarrier ==
    /\ pc \in {"Aggregate", "Sgd"} => \A k \in DOMAIN tasks : tasks[k].st = "done"
    /\ pc \in {"Compute", "Aggregate"} => all_grads = <<>>
    /\ pc = "Sgd" => (grads = <<>> /\ Len(collected) = Len(tasks))
    /\ \A k \in DOMAIN tasks :
           tasks[k].st \in {"sampling", "drawn", "done"} => tasks[k].seen = feature_embeddings
    /\ (pass > 0 /\ (pc = "Pass" \/ (pc \in {"Compute", "Aggregate", "Sgd"} /\ batch = 0)))
           => feature_embeddings = pass_out

\* A closure of the second pass is running on a table the first pass changed.
C15_Witness ==
    /\ pc = "Compute"
    /\ pass = 1
    /\ \E k \in DOMAIN tasks : tasks[k].st = "drawn"
    /\ \E k \in DOMAIN tasks : tasks[k].st = "done"
    /\ pass_out # randomize_embedding_store(EmbeddingStoreNew(FeatureStoreLen),
                                            SeedFromU64(cfg.seed)).es

\* C17: the negative node of an evaluation is one node id of 0 .. N-1 that
\* is not the anchor, a draw of the anchor being rejected and drawn again,
\* and every evaluation that returned a result did so with that one node.
C17_NegativeIsOther ==
    /\ \A k \in DOMAIN tasks :
           tasks[k].st \in {"drawn", "done"} =>
               /\ tasks[k].neg_node \in 0 .. (cfg.n - 1)
               /\ tasks[k].neg_node # tasks[k].node
    /\ pc = "Compute" =>
           DOMAIN grads = {k \in DOMAIN tasks : tasks[k].st = "done"}

\* A closure that drew its anchor first and another node afterwards.
C17_Witness ==
    \E k \in DOMAIN tasks :
        /\ tasks[k].st = "drawn"
        /\ UniformOf(SeedFromU64(cfg.seed + (batch + tasks[k].node)), cfg.n) = tasks[k].node
        /\ tasks[k].neg_node # tasks[k].node

----------------------------------------------------------------------------
(* More properties of FeatureStore *)

\* C19: after any sequence of set_features and fill_missing_nodes calls on a
\* new FeatureStore, every id of every node's feature list is strictly less
\* than FeatureStore::len(), so it is a row of the table that
\* learn_feature_embeddings builds with that length.
C19_IdsBelowLen ==
    \A node \in NodeIds :
        \A i \in DOMAIN features[node] : features[node][i] < FeatureStoreLen

\* Two fills with features set between them, and a node holding a
\* synthesized id that is not an id of the vocabulary.
C19_Witness ==
    /\ fills = 2
    /\ VocabLen(feature_vocab) > 0
    /\ \E node \in NodeIds :
           \E i \in DOMAIN features[node] : features[node][i] >= VocabLen(feature_vocab)

----------------------------------------------------------------------------
(* Properties of the step-by-step Adam update, checked under SpecAdam. *)

\* The rows a task holds a reference to between its first and its last
\* access: the first-moment row from optimizer.rs:91, the second-moment row
\* from :97 and the embedding row from :103, all kept to :109.
Holds(k) == IF tasks[k].st \in {"var", "emb"} THEN {RowOf(tasks[k].feat_id)} ELSE {}

\* C16: the tasks of one update have pairwise different feature keys and
\* rows, so no two tasks in flight hold the same row of any of the three
\* tables; rows of no task are left as they were, and when update returns
\* the tables are the ones the updates give when applied one feature at a
\* time.
C16_RowsDisjoint ==
    /\ pc = "Update" =>
           /\ \A k, j \in DOMAIN tasks :
                  k # j => /\ tasks[k].feat_id # tasks[j].feat_id
                           /\ RowOf(tasks[k].feat_id) # RowOf(tasks[j].feat_id)
                           /\ Holds(k) \cap Holds(j) = {}
           /\ \A r \in DOMAIN feature_embeddings :
                  (\A k \in DOMAIN tasks : RowOf(tasks[k].feat_id) # r) =>
                      /\ feature_embeddings[r] = applied.emb[r]
                      /\ mom[r] = applied.mom[r]
                      /\ var[r] = applied.var[r]
    /\ (pc = "Idle" /\ applied.kind = "Adam") =>
           LET r == AdamOptimizer_update(applied.emb, applied.mom, applied.var,
                                         applied.grads, Alpha, steps - 1)
           IN  /\ feature_embeddings = r.es
               /\ mom = r.mom
               /\ var = r.var

\* Two tasks in flight at a time, one past its second-moment row and the
\* other not.
C16_Witness ==
    /\ pc = "Update"
    /\ \E k, j \in DOMAIN tasks : tasks[k].st = "emb" /\ tasks[j].st = "var"

----------------------------------------------------------------------------
(* Properties of the pooling strategies of ep/model.rs, checked under SpecFn. *)

\* The pooling a strategy uses for construct_node_embedding, on a map.
PoolingOf(strategy, feat_map, es) ==
    IF strategy = "Attention" THEN attention_mean(feat_map, KeyOrder(DOMAIN feat_map), es)
    ELSE MeanPooled(feat_map, KeyOrder(DOMAIN feat_map), es)

\* C18: reconstruct_node_embedding and construct_from_multiple_nodes of a
\* strategy return the vector that the pooling of that strategy gives on
\* the feature multiset of the nodes: the attention-pooled vector for
\* Attention, the weighted mean for Averaged.
C18_SamePooling ==
    args.fn \in {"reconstruct_node_embedding", "construct_from_multiple_nodes"} =>
        result.emb = PoolingOf(args.strategy, result.vars, args.es)

\* The part of C18 that holds: the Averaged strategy pools all three with
\* the weighted mean, and the Attention strategy pools construct with
\* attention.
AveragedPoolsWithMean ==
    /\ (args.fn \in {"reconstruct_node_embedding", "construct_from_multiple_nodes"}
            /\ args.strategy = "Averaged") =>
           result.emb = PoolingOf("Averaged", result.vars, args.es)
    /\ args.fn = "construct_node_embedding" =>
           result.emb = PoolingOf(args.strategy, result.vars, args.es)

\* The Attention strategy always pools the neighbours with the weighted mean.
AttentionPoolsWithMean ==
    (args.fn \in {"reconstruct_node_embedding", "construct_from_multiple_nodes"}
        /\ args.strategy = "Attention") =>
        result.emb = PoolingOf("Averaged", result.vars, args.es)

====
